---- MODULE Spec2Model ----
(***************************************************************************)
(* Custom Svelte stores of svelte-custom-stores-demo as state machines:    *)
(*   - the homemade event-bus store          (src/src/homemade-store.js)   *)
(*   - the simple state machine store        (src/unnamed/part_003)        *)
(*   - the guarded dog state machine store   (src/src/xstate-store.js)     *)
(*     and its earlier variant               (src/unnamed/part_002)        *)
(*   - the immer actions store         (src/src/immer-actions-store.js)    *)
(*   - the immer store                       (src/src/immer-store.js)      *)
(*   - the persisted store            (src/src/local-storage-store.js)     *)
(*   - the redux-backed store                (src/unnamed/part_004)        *)
(*   - the reducer store                     (src/src/reducer-store.js)    *)
(*   - the observable store               (src/src/observable-store.js)    *)
(* Every store call (subscribe, unsubscribe, set, send, construction) is   *)
(* one action.  Listeners are callbacks that record what they are called   *)
(* with: `log` holds the calls made during the last store call and `last`  *)
(* describes that call (which store, which operation, its argument, the    *)
(* store's state before it, and whether it threw).                         *)
(***************************************************************************)
EXTENDS Integers, Sequences, FiniteSets, TLC

VARIABLES
    last,            \* the last store call
    log,             \* listener calls made during the last store call
    hs_state,        \* homemadeStore: let state
    hs_subscribers,  \* homemadeStore: let subscribers (array of listeners)
    hs_handles,      \* homemadeStore: listeners an unsubscribe function was returned for
    hs_behaviour,    \* what each listener does when the homemade store calls it
    sm_cfg,          \* machine: the {init, states} argument
    sm_phase,        \* machine: "unconstructed" | "constructed" | "failed"
    sm_current,      \* machine: let current_state
    sm_value,        \* machine: the value held by writable(current_state)
    sm_subs,         \* machine: the writable's subscribers, in subscription order
    xs_machine,      \* interpret(machine): the machine the service runs
    xs_status,       \* interpret(): status of the service
    xs_state,        \* interpret(): the service's current state object
    xs_listeners,    \* interpret(): number of listeners in the service's Set
    xs_value,        \* readable(): the value held by the store
    xs_subs,         \* readable(): the store's subscribers, in subscription order
    xs_scenario,     \* how far the sends so far follow Scenario, and whether all ran live
    ia_value,        \* immerActionsStore: the value held by writable(value)
    ia_subs,         \* immerActionsStore: the writable's subscribers
    ia_fold,         \* the actions called so far applied in order to initialState
    ia_trace,        \* the names of the first actions called, up to MaxTrace
    ia_ref,          \* immerActionsStore: which object the writable holds
    ia_heap,         \* immerActionsStore: the properties of the objects in use
    ia_kept,         \* immerActionsStore: the object a listener kept, as it saw it
    ia_origin,       \* immerActionsStore: who already had the object the last action produced
    im_value,        \* immerStore: let value, also held by writable(value)
    im_subs,         \* immerStore: the writable's subscribers
    im_ref,          \* immerStore: which object `value` is
    im_heap,         \* immerStore: the properties of the objects in use
    im_kept,         \* immerStore: the object a listener kept, as it saw it
    im_origin,       \* immerStore: who already had the object the last set or update produced
    ps_storage,      \* createPersistedStore: localStorage's entry for the key
    ps_value,        \* createPersistedStore: the value held by writable(initialValue)
    ps_subs,         \* createPersistedStore: the writable's subscribers
    ps_handles,      \* createPersistedStore: listeners holding an unsubscribe function
    ps_phase,        \* createPersistedStore: "created", or "failed" when the call threw
    rs_state,        \* createReduxStore: reduxStore.getState()
    rs_listeners,    \* createReduxStore: number of listeners reduxStore holds
    rs_value,        \* createReduxStore: the value held by the readable
    rs_subs,         \* createReduxStore: the readable's subscribers
    rd_devtools,     \* createStore: const devTools ("none" before createStore runs)
    rd_value,        \* createStore: the value held by writable(init)
    rd_subs,         \* createStore: the writable's subscribers
    rd_fold,         \* the reducer applied to every action dispatched so far, in order
    rd_sent,         \* what devTools.send was last called with
    ob_value,        \* observableStore: the BehaviorSubject's current value
    ob_chains,       \* observableStore: each subscriber's debounceTime and take
    ob_dropped       \* whether a value set while a listener subscribed can no longer reach it

vars == <<last, log, hs_state, hs_subscribers, hs_handles, hs_behaviour,
          sm_cfg, sm_phase, sm_current, sm_value, sm_subs,
          xs_machine, xs_status, xs_state, xs_listeners, xs_value, xs_subs,
          xs_scenario,
          ia_value, ia_subs, ia_fold, ia_trace, ia_ref, ia_heap, ia_kept, ia_origin,
          im_value, im_subs, im_ref, im_heap, im_kept, im_origin,
          ps_storage, ps_value, ps_subs, ps_handles, ps_phase,
          rs_state, rs_listeners, rs_value, rs_subs,
          rd_devtools, rd_value, rd_subs, rd_fold, rd_sent,
          ob_value, ob_chains, ob_dropped>>

hs_vars == <<hs_state, hs_subscribers, hs_handles, hs_behaviour>>
sm_vars == <<sm_cfg, sm_phase, sm_current, sm_value, sm_subs>>
xs_vars == <<xs_machine, xs_status, xs_state, xs_listeners, xs_value, xs_subs,
             xs_scenario>>
ia_vars == <<ia_value, ia_subs, ia_fold, ia_trace, ia_ref, ia_heap, ia_kept,
             ia_origin>>
im_vars == <<im_value, im_subs, im_ref, im_heap, im_kept, im_origin>>
ps_vars == <<ps_storage, ps_value, ps_subs, ps_handles, ps_phase>>

rs_vars == <<rs_state, rs_listeners, rs_value, rs_subs>>

rd_vars == <<rd_devtools, rd_value, rd_subs, rd_fold, rd_sent>>

ob_vars == <<ob_value, ob_chains, ob_dropped>>

\* The stores added after the first three.
ext_vars == <<ia_vars, im_vars, ps_vars, rs_vars, rd_vars, ob_vars>>

----------------------------------------------------------------------------
(* Bounds and shared helpers.                                              *)

\* Callbacks handed to subscribe.
Listeners == {"l1", "l2"}

\* Most registrations a store's listener list holds in the model.
MaxSubscribers == 3

\* JavaScript's undefined.
Undefined == "<undefined>"

\* One listener call: listener(value).
Call(l, v) == [listener |-> l, value |-> v]

\* subscribers.forEach(s => s(v)): every registration, in array order.
ForEachCall(subs, v) == [i \in 1..Len(subs) |-> Call(subs[i], v)]

\* Array.prototype.indexOf, 1-based; 0 stands for JavaScript's -1.
IndexOf(seq, x) ==
    IF \E i \in 1..Len(seq) : seq[i] = x
    THEN CHOOSE i \in 1..Len(seq) : seq[i] = x /\ \A j \in 1..(i - 1) : seq[j] # x
    ELSE 0

\* Array.prototype.splice(index, 1), 1-based.
Splice1(seq, i) == [k \in 1..(Len(seq) - 1) |-> IF k < i THEN seq[k] ELSE seq[k + 1]]

\* The record kept of a store call.
Op(store, op, arg, pre, threw) ==
    [store |-> store, op |-> op, arg |-> arg, pre |-> pre, threw |-> threw]

----------------------------------------------------------------------------
(* homemadeStore (src/src/homemade-store.js).                              *)

\* Values handed to set: the two booleans the demo uses and one object.
\* Each name stands for one JavaScript value, so = is ===.
JsValues == {"false", "true", "obj"}

\* The identifiers the returned unsubscribe closure can resolve: its own
\* const, subscribe's parameter and homemadeStore's bindings.
UnsubscribeScope == {"index", "listener", "subscribers", "state", "value"}

\* The identifier handed to indexOf on line 14.
IndexOfArgument == "subscriber"

\* Evaluating an identifier that no enclosing scope declares throws a
\* ReferenceError.
Resolves(id) == id \in UnsubscribeScope

HsPre == [state |-> hs_state, subscribers |-> hs_subscribers]

\* subscribe(listener): push, return the unsubscribe closure.  No statement
\* of lines 11-19 calls the listener.
HsSubscribe(l) ==
    /\ Len(hs_subscribers) < MaxSubscribers
    /\ hs_subscribers' = Append(hs_subscribers, l)
    /\ hs_handles' = hs_handles \cup {l}
    /\ log' = << >>
    /\ last' = Op("homemade", "subscribe", l, HsPre, FALSE)
    /\ UNCHANGED <<hs_state, hs_behaviour, sm_vars, xs_vars, ext_vars>>

\* The closure returned by subscribe(l).  Line 14 evaluates its argument
\* first; when that throws nothing is removed.
HsUnsubscribe(l) ==
    /\ l \in hs_handles
    /\ IF Resolves(IndexOfArgument)
       THEN LET index == IndexOf(hs_subscribers, l)
            IN /\ hs_subscribers' = IF index # 0
                                    THEN Splice1(hs_subscribers, index)
                                    ELSE hs_subscribers
               /\ last' = Op("homemade", "unsubscribe", l, HsPre, FALSE)
       ELSE /\ hs_subscribers' = hs_subscribers
            /\ last' = Op("homemade", "unsubscribe", l, HsPre, TRUE)
    /\ log' = << >>
    /\ UNCHANGED <<hs_state, hs_handles, hs_behaviour, sm_vars, xs_vars, ext_vars>>

\* Line 22: if (state !== newValue) state = newValue
HsAssign(state, newValue) == IF state # newValue THEN newValue ELSE state

\* HsNotify with the pass made from the last registration to the first.
HsNotify_Reversed(subs, state) ==
    [i \in 1..Len(subs) |-> Call(subs[Len(subs) + 1 - i], state)]

\* Lines 23-25: the notification pass of set, made whatever line 22 did.
HsNotify(subs, state) == IF Len(subs) > 0 THEN ForEachCall(subs, state) ELSE << >>

\* What a listener does when called: "plain" only takes the value;
\* "unsubscribes" also calls an unsubscribe function the store returned
\* (its own or another listener's) and catches nothing.
\* A listener of behaviour "sets" calls set instead (HsPassFrom).
Behaviours == {"plain", "unsubscribes"}

\* Whether the call of listener l throws: the unsubscribe function it calls
\* throws unless line 14's identifier resolves.
CallThrows(behaviour, l) ==
    behaviour[l] = "unsubscribes" /\ ~Resolves(IndexOfArgument)

\* The calls of a pass that are made: forEach ends at the first call that
\* throws.
Made(calls, behaviour) ==
    IF \E i \in 1..Len(calls) : CallThrows(behaviour, calls[i].listener)
    THEN SubSeq(calls, 1, CHOOSE i \in 1..Len(calls) :
                    /\ CallThrows(behaviour, calls[i].listener)
                    /\ \A j \in 1..(i - 1) : ~CallThrows(behaviour, calls[j].listener))
    ELSE calls

\* The value a listener of behaviour "sets" hands to set, when it is
\* called with any other value.
SetByListener == "true"

\* Whether listener l, called with `state`, calls set itself.
CallSets(behaviour, l, state) ==
    behaviour[l] = "sets" /\ state # SetByListener

\* Line 24 from registration i on, `state` being what the variable holds:
\* each callback reads the variable when it runs.  A listener that calls
\* set has line 22 assign the variable and lines 23-25 make a whole pass
\* before its own call returns; the listeners it sets for are then called
\* with SetByListener, which makes none of them call set again.
RECURSIVE HsPassFrom(_, _, _, _)
HsPassFrom(subs, i, state, behaviour) ==
    IF i > Len(subs) THEN << >>
    ELSE IF CallSets(behaviour, subs[i], state)
         THEN << Call(subs[i], state) >>
                 \o HsNotify(subs, HsAssign(state, SetByListener))
                 \o HsPassFrom(subs, i + 1, HsAssign(state, SetByListener), behaviour)
         ELSE << Call(subs[i], state) >> \o HsPassFrom(subs, i + 1, state, behaviour)

\* Lines 23-25 with the calls of set the listeners make.  Without such a
\* listener this is HsNotify.
HsPass(subs, state, behaviour) ==
    IF \E i \in 1..Len(subs) : CallSets(behaviour, subs[i], state)
    THEN HsPassFrom(subs, 1, state, behaviour)
    ELSE HsNotify(subs, state)

\* `state` once the calls are over: a listener that called set assigned it.
HsFinal(state, calls, behaviour) ==
    IF \E i \in 1..Len(calls) : CallSets(behaviour, calls[i].listener, calls[i].value)
    THEN SetByListener
    ELSE state

\* set(newValue), lines 21-26.  An unsubscribe function called from a
\* listener throws before it removes anything (HsUnsubscribe), so the
\* array is the same throughout the pass.
HsSet(newValue) ==
    /\ log' = Made(HsPass(hs_subscribers, HsAssign(hs_state, newValue), hs_behaviour),
                   hs_behaviour)
    /\ hs_state' = HsFinal(HsAssign(hs_state, newValue), log', hs_behaviour)
    /\ last' = Op("homemade", "set", newValue, HsPre,
                  log' # HsPass(hs_subscribers, HsAssign(hs_state, newValue),
                                hs_behaviour))
    /\ UNCHANGED <<hs_subscribers, hs_handles, hs_behaviour, sm_vars, xs_vars, ext_vars>>

HsNext ==
    \/ \E l \in Listeners : HsSubscribe(l)
    \/ \E l \in Listeners : HsUnsubscribe(l)
    \/ \E v \in JsValues : HsSet(v)

----------------------------------------------------------------------------
(* writable / readable of svelte/store, as the stores below use them.      *)

\* safe_not_equal(a, b): an object never equals anything, itself included;
\* primitives are compared with !==.
SafeNotEqual(a, b, isObject) == isObject \/ a # b

\* set(new_value) of a writable holding `value` with subscribers `subs`:
\* the value it holds afterwards.
WritableValue(value, new_value, isObject) ==
    IF SafeNotEqual(value, new_value, isObject) THEN new_value ELSE value

\* set(new_value): the subscriber calls it makes.  `ready` is the writable's
\* `stop`: set while the store has subscribers and its start function has
\* returned.
WritableCalls(value, new_value, isObject, subs, ready) ==
    IF SafeNotEqual(value, new_value, isObject) /\ ready
    THEN ForEachCall(subs, new_value)
    ELSE << >>

\* The unsubscribe function of a writable: delete this registration.
Remove(subs, l) == SelectSeq(subs, LAMBDA x : x # l)

\* Membership in a sequence.
InSeq(seq, x) == \E i \in 1..Len(seq) : seq[i] = x

----------------------------------------------------------------------------
(* machine (src/unnamed/part_003), the simple state machine store.         *)

\* Property names every object literal inherits from Object.prototype.
ObjectPrototypeKeys == {"toString", "constructor", "hasOwnProperty"}

\* What a property read yields for an inherited method.
NativeFunction == "<native function>"

\* obj.hasOwnProperty(key)
HasOwnProperty(obj, key) == key \in DOMAIN obj

\* obj[key]: an own property, else one inherited from Object.prototype,
\* else undefined.
Get(obj, key) ==
    IF key \in DOMAIN obj THEN obj[key]
    ELSE IF key \in ObjectPrototypeKeys THEN NativeFunction
    ELSE Undefined

\* !x is false for functions and non-empty strings.
Truthy(x) == x # Undefined /\ x # ""

\* Whether obj[key] is truthy for an object whose own properties are all
\* objects: own properties and inherited methods are, undefined is not.
HasTruthy(obj, key) == key \in DOMAIN obj \/ key \in ObjectPrototypeKeys

\* state_config.states, lines 30-41.
DemoStates ==
    [visible   |-> [on |-> [HIDE |-> "invisible"]],
     invisible |-> [on |-> [SHOW |-> "visible"]]]

\* A table with handlers whose targets are not states of the table.
StrayStates ==
    [visible   |-> [on |-> [HIDE |-> "invisible", LOST |-> "nowhere",
                            PROTO |-> "toString"]],
     invisible |-> [on |-> [SHOW |-> "visible", LOST |-> "constructor"]]]

\* Initial state names handed to machine.
InitNames == {"visible", "invisible", "nowhere", "toString"}

\* state_config (lines 28-42) and the other arguments machine is given.
Configs == [init : InitNames, states : {DemoStates, StrayStates}]

\* Events handed to send.
SmEvents == {"SHOW", "HIDE", "INC", "DEC", "LOST", "PROTO", "constructor"}

SmPre == [phase |-> sm_phase, current |-> sm_current, value |-> sm_value,
          subs |-> sm_subs]

\* InitIsState written as the truthiness test of line 14: !states[init].
InitIsState_Truthy(cfg) == HasTruthy(cfg.states, cfg.init)

\* Line 4: the check of init.
InitIsState(cfg) == HasOwnProperty(cfg.states, cfg.init)

\* machine({init, states}), lines 3-6 and 22-25.
SmMachine ==
    /\ sm_phase = "unconstructed"
    /\ IF ~InitIsState(sm_cfg)
       THEN /\ sm_phase' = "failed"
            /\ last' = Op("machine", "machine", sm_cfg.init, SmPre, TRUE)
            /\ UNCHANGED <<sm_current, sm_value>>
       ELSE /\ sm_phase' = "constructed"
            /\ sm_current' = sm_cfg.init
            /\ sm_value' = sm_cfg.init
            /\ last' = Op("machine", "machine", sm_cfg.init, SmPre, FALSE)
    /\ log' = << >>
    /\ UNCHANGED <<sm_cfg, sm_subs, hs_vars, xs_vars, ext_vars>>

\* Line 14: the check of the handler's target.
TargetIsState(states, target) == HasTruthy(states, target)

\* Lines 11-16: send takes the handler of the current state for the event
\* when there is one and its target passes the check.
SmAccepts(states, current, event) ==
    /\ Truthy(Get(states[current].on, event))
    /\ TargetIsState(states, Get(states[current].on, event))

\* current_state after send(event) from a state that is a key of states.
SmStep(states, current, event) ==
    IF SmAccepts(states, current, event)
    THEN Get(states[current].on, event)
    ELSE current

\* send(event), lines 8-20.  states[current_state].on throws a TypeError
\* when states[current_state] is not a state definition: an inherited
\* function has no `on`, and undefined has no properties.
SmSend(event) ==
    /\ sm_phase = "constructed"
    /\ IF ~HasOwnProperty(sm_cfg.states, sm_current)
       THEN /\ last' = Op("machine", "send", event, SmPre, TRUE)
            /\ log' = << >>
            /\ UNCHANGED <<sm_current, sm_value>>
       ELSE LET target == SmStep(sm_cfg.states, sm_current, event)
            IN IF ~SmAccepts(sm_cfg.states, sm_current, event)
               THEN /\ last' = Op("machine", "send", event, SmPre, FALSE)
                    /\ log' = << >>
                    /\ UNCHANGED <<sm_current, sm_value>>
               ELSE /\ sm_current' = target
                    /\ sm_value' = WritableValue(sm_value, target, FALSE)
                    /\ log' = WritableCalls(sm_value, target, FALSE,
                                            sm_subs, sm_subs # << >>)
                    /\ last' = Op("machine", "send", event, SmPre, FALSE)
    /\ UNCHANGED <<sm_cfg, sm_phase, sm_subs, hs_vars, xs_vars, ext_vars>>

\* subscribe(run) of the writable: register, then call run(value).
SmSubscribe(l) ==
    /\ sm_phase = "constructed"
    /\ ~InSeq(sm_subs, l)
    /\ sm_subs' = Append(sm_subs, l)
    /\ log' = << Call(l, sm_value) >>
    /\ last' = Op("machine", "subscribe", l, SmPre, FALSE)
    /\ UNCHANGED <<sm_cfg, sm_phase, sm_current, sm_value, hs_vars, xs_vars, ext_vars>>

\* The unsubscribe function the writable's subscribe returned for l.
SmUnsubscribe(l) ==
    /\ sm_phase = "constructed"
    /\ InSeq(sm_subs, l)
    /\ sm_subs' = Remove(sm_subs, l)
    /\ log' = << >>
    /\ last' = Op("machine", "unsubscribe", l, SmPre, FALSE)
    /\ UNCHANGED <<sm_cfg, sm_phase, sm_current, sm_value, hs_vars, xs_vars, ext_vars>>

SmNext ==
    \/ SmMachine
    \/ \E e \in SmEvents : SmSend(e)
    \/ \E l \in Listeners : SmSubscribe(l)
    \/ \E l \in Listeners : SmUnsubscribe(l)

\* The returned object with the writable's set and update passed on too.
MachineExports_WithSetters == {"subscribe", "send", "set", "update"}

\* Lines 22-25: the properties of the object machine returns.
MachineExports == {"subscribe", "send"}

\* Line 6: the methods of the writable that machine destructures.
WritableSetters == {"set", "update"}

\* The state names a caller tries to place the machine in.
SmForced == {"visible", "invisible", "nowhere"}

\* A caller's store[method](v) for a method of the writable, where update
\* is called with a function that returns v.  A method that is not a
\* property of the returned object is undefined and calling it throws a
\* TypeError; one that is a property is the writable's own, which sets the
\* writable's value and notifies and does not touch current_state.
SmCallSetter(method, v) ==
    /\ sm_phase = "constructed"
    /\ IF method \notin MachineExports
       THEN /\ last' = Op("machine", method, v, SmPre, TRUE)
            /\ log' = << >>
            /\ UNCHANGED sm_value
       ELSE /\ sm_value' = WritableValue(sm_value, v, FALSE)
            /\ log' = WritableCalls(sm_value, v, FALSE, sm_subs, sm_subs # << >>)
            /\ last' = Op("machine", method, v, SmPre, FALSE)
    /\ UNCHANGED <<sm_cfg, sm_phase, sm_current, sm_subs, hs_vars, xs_vars, ext_vars>>

\* The store's own operations and a caller's attempts at the writable's.
SmCallersNext ==
    \/ SmNext
    \/ \E method \in WritableSetters, v \in SmForced : SmCallSetter(method, v)

----------------------------------------------------------------------------
(* useMachine(dog_machine) (src/src/xstate-store.js): @xstate/fsm's        *)
(* createMachine and interpret behind a svelte readable.                   *)

\* Events handed to send.
XsEvents == {"HIDE", "SHOW", "INC", "DEC"}

\* increment adding two dogs.
increment_ByTwo(context) == [context EXCEPT !.dogs = context.dogs + 2]

\* Lines 4-6: assign({dogs: (context) => context.dogs + 1}).
increment(context) == [context EXCEPT !.dogs = context.dogs + 1]

\* Lines 7-9: assign({dogs: (context) => context.dogs - 1}).
decrement(context) == [context EXCEPT !.dogs = context.dogs - 1]

\* dogsCanChange with both comparisons strict.
dogsCanChange_Strict(ctx, event) ==
    IF event = "DEC" /\ ctx.dogs < 0 THEN FALSE
    ELSE IF event = "INC" /\ ctx.dogs > 6 THEN FALSE
    ELSE TRUE

\* Lines 10-14.
dogsCanChange(ctx, event) ==
    IF event = "DEC" /\ ctx.dogs <= 0 THEN FALSE
    ELSE IF event = "INC" /\ ctx.dogs >= 6 THEN FALSE
    ELSE TRUE

\* A transition of the machine's table.  A string 'x' is {target: 'x'};
\* the fsm package reads target, actions and cond and nothing else.
Target(t) == [target |-> t, actions |-> << >>, cond |-> "none"]
Internal(action, cond) == [target |-> Undefined, actions |-> <<action>>, cond |-> cond]

\* dog_machine with HIDE naming the state it is defined in.
dog_machine_HideStays ==
    [initial |-> "visible",
     context |-> [dogs |-> 0],
     states  |->
        [visible   |-> [on |-> [HIDE |-> Target("visible"),
                                INC  |-> Internal("increment", "dogsCanChange"),
                                DEC  |-> Internal("decrement", "dogsCanChange")]],
         invisible |-> [on |-> [SHOW |-> Target("visible")]]]]

\* dog_machine, lines 37-61.
dog_machine ==
    [initial |-> "visible",
     context |-> [dogs |-> 0],
     states  |->
        [visible   |-> [on |-> [HIDE |-> Target("invisible"),
                                INC  |-> Internal("increment", "dogsCanChange"),
                                DEC  |-> Internal("decrement", "dogsCanChange")]],
         invisible |-> [on |-> [SHOW |-> Target("visible")]]]]

\* dogsCanChange of src/unnamed/part_002, lines 10-14: the two `false` are
\* expression statements, so every call reaches `return true`.
dogsCanChange_part_002(ctx, event) == TRUE

\* dog_machine of src/unnamed/part_002, lines 37-61: INC and DEC name no
\* cond, so the guard registered at line 59 is never called.
dog_machine_part_002 ==
    [initial |-> "visible",
     context |-> [dogs |-> 0],
     states  |->
        [visible   |-> [on |-> [HIDE |-> Target("invisible"),
                                INC  |-> Internal("increment", "none"),
                                DEC  |-> Internal("decrement", "none")]],
         invisible |-> [on |-> [SHOW |-> Target("visible")]]]]

\* How far beyond 0..6 the model lets dogs go.
MaxStray == 1

\* Cond with the transition's cond never consulted.
Cond_Ignored(name, ctx, event) == TRUE

\* cond(context, eventObject); a transition without cond is always taken.
Cond(name, ctx, event) ==
    IF name = "dogsCanChange" THEN dogsCanChange(ctx, event) ELSE TRUE

\* One assign action applied to the context.
Exec(action, ctx) ==
    IF action = "increment" THEN increment(ctx)
    ELSE IF action = "decrement" THEN decrement(ctx)
    ELSE ctx

\* handleActions: the assign actions applied in order.
RECURSIVE HandleActions(_, _)
HandleActions(actions, ctx) ==
    IF actions = << >> THEN ctx
    ELSE HandleActions(Tail(actions), Exec(Head(actions), ctx))

\* machine.initialState
InitialState(m) == [value |-> m.initial, context |-> m.context, changed |-> FALSE]

\* createUnchangedState(value, context)
UnchangedState(state) == [value |-> state.value, context |-> state.context, changed |-> FALSE]

\* machine.transition(state, event): the state's transition for the event,
\* taken when its cond holds; the unchanged state otherwise.
Transition(m, state, event) ==
    LET on == m.states[state.value].on
    IN IF event \notin DOMAIN on THEN UnchangedState(state)
       ELSE LET t == on[event]
            IN IF Cond(t.cond, state.context, event)
               THEN [value   |-> IF t.target = Undefined THEN state.value ELSE t.target,
                     context |-> HandleActions(t.actions, state.context),
                     changed |-> t.target # state.value \/ t.actions # << >>]
               ELSE UnchangedState(state)

\* Lines 20-22: the listener useMachine gives the service.  What the
\* readable holds after the listener ran on `state`.
ServiceListenerValue(value, state) ==
    IF state.changed THEN WritableValue(value, state, TRUE) ELSE value

\* ServiceListenerCalls without the test of state.changed.
ServiceListenerCalls_Always(value, state, subs, ready) ==
    WritableCalls(value, state, TRUE, subs, ready)

\* Lines 20-22: the subscriber calls the listener's set makes.
ServiceListenerCalls(value, state, subs, ready) ==
    IF state.changed THEN WritableCalls(value, state, TRUE, subs, ready) ELSE << >>

\* The sends of the transition example, in order.
Scenario == <<"INC", "SHOW", "HIDE">>

\* xs_scenario after send(event): one step further when the event is the
\* scenario's next, off it (step -1) otherwise.  live: every send so far
\* was made while the service ran.
Followed(scenario, event, running) ==
    IF scenario.step \in 0..(Len(Scenario) - 1) /\ event = Scenario[scenario.step + 1]
    THEN [step |-> scenario.step + 1, live |-> scenario.live /\ running]
    ELSE [step |-> -1, live |-> FALSE]

XsPre == [status |-> xs_status, state |-> xs_state, value |-> xs_value,
          subs |-> xs_subs]

\* service.send(event): ignored unless the service is running; else the
\* transition, then every service listener called with the new state.
XsSend(event) ==
    /\ event = "INC" => xs_state.context.dogs < 6 + MaxStray
    /\ event = "DEC" => xs_state.context.dogs > 0 - MaxStray
    /\ IF xs_status # "Running"
       THEN /\ log' = << >>
            /\ UNCHANGED <<xs_state, xs_value>>
       ELSE /\ xs_state' = Transition(xs_machine, xs_state, event)
            /\ xs_value' = IF xs_listeners > 0
                           THEN ServiceListenerValue(xs_value, xs_state')
                           ELSE xs_value
            /\ log' = IF xs_listeners > 0
                      THEN ServiceListenerCalls(xs_value, xs_state', xs_subs,
                                                xs_subs # << >>)
                      ELSE << >>
    /\ xs_scenario' = Followed(xs_scenario, event, xs_status = "Running")
    /\ last' = Op("dogs", "send", event, XsPre, FALSE)
    /\ UNCHANGED <<xs_machine, xs_status, xs_listeners, xs_subs, hs_vars, sm_vars, ext_vars>>

\* store.state.subscribe(run).  The first subscriber runs the readable's
\* start function (lines 19-29): service.subscribe calls the listener with
\* the service's state before the readable is ready, then service.start().
\* Every subscriber is then called with the value the readable holds.
XsSubscribe(l) ==
    /\ ~InSeq(xs_subs, l)
    /\ xs_subs' = Append(xs_subs, l)
    /\ IF xs_subs = << >>
       THEN /\ xs_listeners' = xs_listeners + 1
            /\ xs_value' = ServiceListenerValue(xs_value, xs_state)
            /\ xs_status' = "Running"
       ELSE UNCHANGED <<xs_listeners, xs_value, xs_status>>
    /\ log' = << Call(l, xs_value') >>
    /\ last' = Op("dogs", "subscribe", l, XsPre, FALSE)
    /\ UNCHANGED <<xs_machine, xs_state, xs_scenario, hs_vars, sm_vars, ext_vars>>

\* The unsubscribe function of the readable.  The last subscriber leaving
\* runs the stop function (lines 26-28): service.stop() clears the
\* service's listeners.
XsUnsubscribe(l) ==
    /\ InSeq(xs_subs, l)
    /\ xs_subs' = Remove(xs_subs, l)
    /\ IF xs_subs' = << >>
       THEN /\ xs_status' = "Stopped"
            /\ xs_listeners' = 0
       ELSE UNCHANGED <<xs_status, xs_listeners>>
    /\ log' = << >>
    /\ last' = Op("dogs", "unsubscribe", l, XsPre, FALSE)
    /\ UNCHANGED <<xs_machine, xs_state, xs_value, xs_scenario, hs_vars, sm_vars, ext_vars>>

XsNext ==
    \/ \E e \in XsEvents : XsSend(e)
    \/ \E l \in Listeners : XsSubscribe(l)
    \/ \E l \in Listeners : XsUnsubscribe(l)

----------------------------------------------------------------------------
(* Objects of the immer-backed stores.  A store's heap maps each object in *)
(* use to its properties; a listener may keep the object it is called      *)
(* with, remembered in `kept` together with the properties it had then.    *)

\* Names of objects, enough for the one the module created, the one the
\* store holds, the one being produced and the one a listener kept.
Refs == 0..3

\* The object the module created and handed to the store.
InitialRef == 0

\* A new object: the first name not in use.
Fresh(heap) ==
    CHOOSE r \in Refs \ DOMAIN heap : \A q \in Refs \ DOMAIN heap : r <= q

\* heap with `content` as the properties of object ref.
Written(heap, ref, content) ==
    [r \in DOMAIN heap \cup {ref} |-> IF r = ref THEN content ELSE heap[r]]

\* The name an object goes by once a call is over: its place among
\* `roots` (the objects the module and the store hold), or the next name
\* for the object only a listener refers to.  Heaps that differ only in
\* the names of their objects are then one state.
Role(r, roots) ==
    IF \E i \in 1..Len(roots) : roots[i] = r
    THEN (CHOOSE i \in 1..Len(roots) :
             roots[i] = r /\ \A j \in 1..(i - 1) : roots[j] # r) - 1
    ELSE Len(roots)

\* The objects something still refers to.
Live(roots, kept) ==
    {roots[i] : i \in 1..Len(roots)} \cup {kept[l].ref : l \in DOMAIN kept}

\* heap without the objects nothing refers to any more.
Collected(heap, roots, kept) ==
    [c \in {Role(r, roots) : r \in Live(roots, kept)} |->
        heap[CHOOSE r \in Live(roots, kept) : Role(r, roots) = c]]

\* kept with its references under the names of Role.
Renamed(kept, roots) ==
    [l \in DOMAIN kept |-> [kept[l] EXCEPT !.ref = Role(kept[l].ref, roots)]]

\* Copy with produce writing the draft's properties into its base.
Copy_InPlace(heap, base) == base

\* produce: the object that receives a changed draft's properties is a
\* copy of the base, made when the draft is first written.
Copy(heap, base) == Fresh(heap)

\* produce(base, recipe): the object returned when the recipe left `draft`
\* and returned nothing; the base itself when the draft was not changed.
ProduceRef(heap, base, draft) ==
    IF draft = heap[base] THEN base ELSE Copy(heap, base)

\* The heap after that call of produce.
ProduceHeap(heap, base, draft) ==
    IF draft = heap[base] THEN heap ELSE Written(heap, Copy(heap, base), draft)

\* Who already had object ref before a call: "held" when it is the object
\* the store held, "kept" when a listener had kept it.
Origin(ref, held, kept) ==
    {o \in {"held"} : ref = held}
        \cup {o \in {"kept"} : \E l \in DOMAIN kept : kept[l].ref = ref}

\* The listeners called in a pass.
CalledIn(calls) == {calls[i].listener : i \in 1..Len(calls)}

\* kept after the listener in `keeps`, if any, kept object ref, called
\* with it.  The model follows the reference kept last.
Keep(kept, keeps, ref, heap) ==
    IF keeps = {} THEN kept
    ELSE [l \in keeps |-> [ref |-> ref, seen |-> heap[ref]]]

\* Who keeps what a pass delivers: nobody, or one of `listeners`.
Keepers(listeners) == {{}} \cup {{l} : l \in listeners}

----------------------------------------------------------------------------
(* immerActionsStore (src/src/immer-actions-store.js).                     *)

\* Most dogs inc is called up to in the model.
MaxDogs == 3

\* Most action names ia_trace records; a longer history is <<"more">>.
MaxTrace == 2

\* Lines 4-7.
initialState == [visible |-> FALSE, dogs |-> 0]

\* Object.keys(actions), lines 9-25.
ActionNames == <<"reset", "show", "hide", "inc", "dec">>

\* RecipeDraft with dec decrementing whatever dogs is.
RecipeDraft_DecUnguarded(actionName, draft) ==
    CASE actionName = "show" -> [draft EXCEPT !.visible = TRUE]
      [] actionName = "hide" -> [draft EXCEPT !.visible = FALSE]
      [] actionName = "inc"  -> [draft EXCEPT !.dogs = draft.dogs + 1]
      [] actionName = "dec"  -> [draft EXCEPT !.dogs = draft.dogs - 1]
      [] OTHER -> draft

\* The recipes of lines 9-25 run on a draft: what the draft holds
\* afterwards.  reset (lines 10-12) leaves the draft alone.
RecipeDraft(actionName, draft) ==
    CASE actionName = "show" -> [draft EXCEPT !.visible = TRUE]
      [] actionName = "hide" -> [draft EXCEPT !.visible = FALSE]
      [] actionName = "inc"  -> [draft EXCEPT !.dogs = draft.dogs + 1]
      [] actionName = "dec"  -> IF draft.dogs > 0
                                THEN [draft EXCEPT !.dogs = draft.dogs - 1]
                                ELSE draft
      [] OTHER -> draft

\* Whether the recipe returns a value of its own: only reset does.
RecipeReturns(actionName) == actionName = "reset"

\* Produce with the recipe's return value dropped.
Produce_DropsReturn(actionName, state) == RecipeDraft(actionName, state)

\* produce(recipe)(state, payload): the recipe's return value when it
\* returns one and left the draft alone, else the draft's final contents.
Produce(actionName, state) ==
    IF RecipeReturns(actionName) /\ RecipeDraft(actionName, state) = state
    THEN initialState
    ELSE RecipeDraft(actionName, state)

\* MappedAction with every closure sharing one actionName binding, the
\* last key's.
MappedAction_LastKey(actionName) == ActionNames[Len(ActionNames)]

\* Lines 30-33: the action mappedActions[actionName] runs.  Each closure
\* captures the actionName of its own reduce step.
MappedAction(actionName) == actionName

\* ia_trace after one more action.
Traced(trace, actionName) ==
    IF trace # <<"more">> /\ Len(trace) < MaxTrace
    THEN Append(trace, actionName)
    ELSE <<"more">>

IaPre == [value |-> ia_value, subs |-> ia_subs, fold |-> ia_fold, trace |-> ia_trace,
          ref |-> ia_ref]

\* The object produce(actions[actionName])(state, payload) returns: the
\* recipe's return value (reset returns the module's initialState object)
\* when the draft was left alone, else what produce makes of the draft.
IaProducedRef(actionName) ==
    IF RecipeReturns(actionName)
       /\ RecipeDraft(actionName, ia_heap[ia_ref]) = ia_heap[ia_ref]
    THEN InitialRef
    ELSE ProduceRef(ia_heap, ia_ref, RecipeDraft(actionName, ia_heap[ia_ref]))

not_ia == <<hs_vars, sm_vars, xs_vars, im_vars, ps_vars, rs_vars,
           rd_vars, ob_vars>>

\* actions[actionName](payload), line 31: store.update(state => produce(..))
\* is set(fn(value)) on a writable holding an object.
IaAction(actionName, keeps) ==
    /\ actionName = "inc" => ia_value.dogs < MaxDogs
    /\ LET new_value == Produce(MappedAction(actionName), ia_value)
       IN /\ ia_value' = WritableValue(ia_value, new_value, TRUE)
          /\ log' = WritableCalls(ia_value, new_value, TRUE, ia_subs, ia_subs # << >>)
    /\ keeps \in Keepers(CalledIn(log'))
    /\ LET held == IaProducedRef(MappedAction(actionName))
           heap == ProduceHeap(ia_heap, ia_ref,
                               RecipeDraft(MappedAction(actionName), ia_heap[ia_ref]))
           kept == Keep(ia_kept, keeps, held, heap)
           roots == <<InitialRef, held>>
       IN /\ ia_ref' = Role(held, roots)
          /\ ia_kept' = Renamed(kept, roots)
          /\ ia_heap' = Collected(heap, roots, kept)
          /\ ia_origin' = Origin(held, ia_ref, ia_kept)
    /\ ia_fold' = IF actionName = "reset" THEN initialState
                  ELSE RecipeDraft(actionName, ia_fold)
    /\ ia_trace' = Traced(ia_trace, actionName)
    /\ last' = Op("immerActions", actionName, "", IaPre, FALSE)
    /\ UNCHANGED <<ia_subs, not_ia>>

\* store.subscribe(run), line 37: the writable's subscribe.
IaSubscribe(l, keeps) ==
    /\ ~InSeq(ia_subs, l)
    /\ ia_subs' = Append(ia_subs, l)
    /\ log' = << Call(l, ia_value) >>
    /\ keeps \in Keepers(CalledIn(log'))
    /\ LET kept == Keep(ia_kept, keeps, ia_ref, ia_heap)
           roots == <<InitialRef, ia_ref>>
       IN /\ ia_kept' = Renamed(kept, roots)
          /\ ia_heap' = Collected(ia_heap, roots, kept)
    /\ last' = Op("immerActions", "subscribe", l, IaPre, FALSE)
    /\ UNCHANGED <<ia_value, ia_fold, ia_trace, ia_ref, ia_origin, not_ia>>

\* The unsubscribe function the writable's subscribe returned for l.
IaUnsubscribe(l) ==
    /\ InSeq(ia_subs, l)
    /\ ia_subs' = Remove(ia_subs, l)
    /\ log' = << >>
    /\ last' = Op("immerActions", "unsubscribe", l, IaPre, FALSE)
    /\ UNCHANGED <<ia_value, ia_fold, ia_trace, ia_ref, ia_heap, ia_kept, ia_origin,
                   not_ia>>

IaNext ==
    \/ \E i \in 1..Len(ActionNames), keeps \in Keepers(Listeners) :
            IaAction(ActionNames[i], keeps)
    \/ \E l \in Listeners, keeps \in Keepers(Listeners) : IaSubscribe(l, keeps)
    \/ \E l \in Listeners : IaUnsubscribe(l)

----------------------------------------------------------------------------
(* immerStore (src/src/immer-store.js).                                    *)

\* The recipes handed to update, as the README's buttons write them:
\* $state.visible = isVisible and $state.dogs += dogs.
ImRecipes == {"visible=true", "visible=false", "dogs+=1", "dogs-=1", "dogs+=0"}

\* A recipe run on a draft: what the draft holds afterwards.
ImDraft(fn, draft) ==
    CASE fn = "visible=true"  -> [draft EXCEPT !.visible = TRUE]
      [] fn = "visible=false" -> [draft EXCEPT !.visible = FALSE]
      [] fn = "dogs+=1"       -> [draft EXCEPT !.dogs = draft.dogs + 1]
      [] fn = "dogs-=1"       -> [draft EXCEPT !.dogs = draft.dogs - 1]
      [] OTHER -> draft

\* ProducedSame with produce copying its base whatever the recipe did.
ProducedSame_AlwaysCopies(base, result) == FALSE

\* produce(value, fn) returns its base itself, not a copy, when the recipe
\* left every property of the draft with the value it had.
ProducedSame(base, result) == result = base

\* The objects handed to set.
ImValues == [visible : BOOLEAN, dogs : 0..MaxDogs]

ImPre == [value |-> im_value, subs |-> im_subs, ref |-> im_ref]

not_im == <<hs_vars, sm_vars, xs_vars, ia_vars, ps_vars, rs_vars,
           rd_vars, ob_vars>>

\* function set, lines 7-11, called with an object holding `content`;
\* `same` says the object is the one the store holds (new_value === value).
ImSetTo(content, same) ==
    IF ~same
    THEN /\ im_value' = WritableValue(im_value, content, TRUE)
         /\ log' = WritableCalls(im_value, content, TRUE, im_subs, im_subs # << >>)
    ELSE /\ im_value' = im_value
         /\ log' = << >>

\* state.set(new_value), line 14.
ImSet(content, same, keeps) ==
    /\ same => content = im_value
    /\ ImSetTo(content, same)
    /\ keeps \in Keepers(CalledIn(log'))
    /\ LET held == IF same THEN im_ref ELSE Fresh(im_heap)
           heap == Written(im_heap, held, content)
           kept == Keep(im_kept, keeps, held, heap)
       IN /\ im_ref' = Role(held, <<held>>)
          /\ im_kept' = Renamed(kept, <<held>>)
          /\ im_heap' = Collected(heap, <<held>>, kept)
          /\ im_origin' = Origin(held, im_ref, im_kept)
    /\ last' = Op("immer", "set", IF same THEN "same" ELSE "other", ImPre, FALSE)
    /\ UNCHANGED <<im_subs, not_im>>

\* state.update(fn), line 15: set(produce(value, fn)).
ImUpdate(fn, keeps) ==
    /\ fn = "dogs+=1" => im_value.dogs < MaxDogs
    /\ fn = "dogs-=1" => im_value.dogs > -MaxDogs
    /\ LET result == ImDraft(fn, im_value)
       IN ImSetTo(result, ProducedSame(im_value, result))
    /\ keeps \in Keepers(CalledIn(log'))
    /\ LET held == ProduceRef(im_heap, im_ref, ImDraft(fn, im_heap[im_ref]))
           heap == ProduceHeap(im_heap, im_ref, ImDraft(fn, im_heap[im_ref]))
           kept == Keep(im_kept, keeps, held, heap)
       IN /\ im_ref' = Role(held, <<held>>)
          /\ im_kept' = Renamed(kept, <<held>>)
          /\ im_heap' = Collected(heap, <<held>>, kept)
          /\ im_origin' = Origin(held, im_ref, im_kept)
    /\ last' = Op("immer", "update", fn, ImPre, FALSE)
    /\ UNCHANGED <<im_subs, not_im>>

\* state.subscribe(run), line 16: the writable's subscribe.
ImSubscribe(l, keeps) ==
    /\ ~InSeq(im_subs, l)
    /\ im_subs' = Append(im_subs, l)
    /\ log' = << Call(l, im_value) >>
    /\ keeps \in Keepers(CalledIn(log'))
    /\ LET kept == Keep(im_kept, keeps, im_ref, im_heap)
       IN /\ im_kept' = Renamed(kept, <<im_ref>>)
          /\ im_heap' = Collected(im_heap, <<im_ref>>, kept)
    /\ last' = Op("immer", "subscribe", l, ImPre, FALSE)
    /\ UNCHANGED <<im_value, im_ref, im_origin, not_im>>

\* The unsubscribe function the writable's subscribe returned for l.
ImUnsubscribe(l) ==
    /\ InSeq(im_subs, l)
    /\ im_subs' = Remove(im_subs, l)
    /\ log' = << >>
    /\ last' = Op("immer", "unsubscribe", l, ImPre, FALSE)
    /\ UNCHANGED <<im_value, im_ref, im_heap, im_kept, im_origin, not_im>>

ImNext ==
    \/ \E v \in ImValues, same \in BOOLEAN, keeps \in Keepers(Listeners) :
            ImSet(v, same, keeps)
    \/ \E fn \in ImRecipes, keeps \in Keepers(Listeners) : ImUpdate(fn, keeps)
    \/ \E l \in Listeners, keeps \in Keepers(Listeners) : ImSubscribe(l, keeps)
    \/ \E l \in Listeners : ImUnsubscribe(l)

----------------------------------------------------------------------------
(* createPersistedStore (src/src/local-storage-store.js).                  *)

\* localStorage.getItem of a key that has no entry.
Null == "<null>"

\* Line 20: the default value.
PsDefault == [visible |-> FALSE, dogs |-> 0]

\* The {visible, dogs} objects handed to set.
PsObjects == [visible : BOOLEAN, dogs : 0..MaxDogs]

\* The value undefined, which set takes like any other.
JsUndefined == [undefined |-> TRUE]

\* The values handed to set.
PsValues == PsObjects \cup {JsUndefined}

\* What line 10 stores for v.  JSON.stringify of a {visible, dogs} object
\* is its JSON text; JSON.stringify(undefined) is undefined, which setItem
\* converts to the string "undefined".
Stringify(v) ==
    IF v = JsUndefined THEN "undefined"
    ELSE "{\"visible\":" \o (IF v.visible THEN "true" ELSE "false")
             \o ",\"dogs\":" \o ToString(v.dogs) \o "}"

\* Whether JSON.parse(item) throws a SyntaxError: it does unless item is a
\* JSON text, here the text of a {visible, dogs} object.
ParseThrows(item) == \A v \in PsObjects : Stringify(v) # item

\* JSON.parse(item) for a JSON text: the object with the properties the
\* text spells out.
Parse(item) == CHOOSE v \in PsObjects : Stringify(v) = item

\* Line 5: initialJson ? JSON.parse(initialJson) : defaultValue.  null is
\* falsy, every stored string here is not.
InitialValue(initialJson, defaultValue) ==
    IF initialJson = Null THEN defaultValue ELSE Parse(initialJson)

PsPre(fails) == [value |-> ps_value, subs |-> ps_subs, storage |-> ps_storage,
                 fails |-> fails]

not_ps == <<hs_vars, sm_vars, xs_vars, ia_vars, im_vars, rs_vars,
           rd_vars, ob_vars>>

\* Lines 9-12, the callback the wrapper registers, run once per subscriber
\* in `subs` on `current`: setItem, then fn(current).  When setItem throws
\* the first callback ends the pass before any fn is called.
PsStored(subs, current, fails) ==
    IF subs # << >> /\ ~fails THEN Stringify(current) ELSE ps_storage

PsCalls(subs, current, fails) ==
    IF fails THEN << >> ELSE ForEachCall(subs, current)

\* store.set(new_value), line 16: the writable's set, on an object.  `fails`
\* says whether localStorage.setItem throws during this call.
PsSet(new_value, fails) ==
    /\ ps_phase = "created"
    /\ ps_value' = WritableValue(ps_value, new_value, TRUE)
    /\ ps_storage' = PsStored(ps_subs, ps_value', fails)
    /\ log' = PsCalls(ps_subs, ps_value', fails)
    /\ last' = Op("persisted", "set", Stringify(new_value), PsPre(fails),
                  fails /\ ps_subs # << >>)
    /\ UNCHANGED <<ps_subs, ps_handles, ps_phase, not_ps>>

\* subscribe(fn), lines 8-12: the writable registers the callback and runs
\* it on the current value before it returns the unsubscribe function, so
\* a throw leaves the callback registered and the caller without a handle.
PsSubscribe(l, fails) ==
    /\ ps_phase = "created"
    /\ ~InSeq(ps_subs, l)
    /\ ps_subs' = Append(ps_subs, l)
    /\ ps_handles' = IF fails THEN ps_handles ELSE ps_handles \cup {l}
    /\ ps_storage' = PsStored(<<l>>, ps_value, fails)
    /\ log' = PsCalls(<<l>>, ps_value, fails)
    /\ last' = Op("persisted", "subscribe", l, PsPre(fails), fails)
    /\ UNCHANGED <<ps_value, ps_phase, not_ps>>

\* The unsubscribe function the writable's subscribe returned for l.
PsUnsubscribe(l) ==
    /\ l \in ps_handles
    /\ ps_subs' = Remove(ps_subs, l)
    /\ ps_handles' = ps_handles \ {l}
    /\ log' = << >>
    /\ last' = Op("persisted", "unsubscribe", l, PsPre(FALSE), FALSE)
    /\ UNCHANGED <<ps_value, ps_storage, ps_phase, not_ps>>

\* createPersistedStore('dogs', defaultValue) called again, lines 3-6 and
\* 20: the page is loaded anew, the earlier instance and its subscribers
\* are gone and localStorage is what they left.  When JSON.parse throws no
\* store comes into being.
PsCreate ==
    /\ IF ps_storage # Null /\ ParseThrows(ps_storage)
       THEN /\ ps_phase' = "failed"
            /\ ps_value' = ps_value
       ELSE /\ ps_phase' = "created"
            /\ ps_value' = InitialValue(ps_storage, PsDefault)
    /\ ps_subs' = << >>
    /\ ps_handles' = {}
    /\ log' = << >>
    /\ last' = Op("persisted", "create", "", PsPre(FALSE), ps_phase' = "failed")
    /\ UNCHANGED <<ps_storage, not_ps>>

PsNext ==
    \/ PsCreate
    \/ \E v \in PsValues, fails \in BOOLEAN : PsSet(v, fails)
    \/ \E l \in Listeners, fails \in BOOLEAN : PsSubscribe(l, fails)
    \/ \E l \in Listeners : PsUnsubscribe(l)

----------------------------------------------------------------------------
(* createReduxStore (src/unnamed/part_004).                                *)

\* Line 5.
reduxInitialState == [visible |-> FALSE, dogs |-> 2]

\* Lines 7-10; HIDE_ is the source's HIDE, a reserved word here.
SHOW == "dogs/SHOW"
HIDE_ == "dogs/HIDE"
INC == "dogs/INCREMENT"
DEC == "dogs/DECREMENT"

\* Action types handed to dispatch; "dogs/BARK" has no handler.
ActionTypes == {SHOW, HIDE_, INC, DEC, "dogs/BARK"}

\* Lines 19-32: the draft after the handler of `type` ran on it.
Handlers(state, type) ==
    IF type = SHOW THEN [state EXCEPT !.visible = TRUE]
    ELSE IF type = HIDE_ THEN [state EXCEPT !.visible = FALSE]
    ELSE IF type = INC THEN [state EXCEPT !.dogs = state.dogs + 1]
    ELSE [state EXCEPT !.dogs = state.dogs - 1]

\* Lines 34-35.
Reducer(state, type) ==
    IF type \in {SHOW, HIDE_, INC, DEC} THEN Handlers(state, type) ELSE state

\* The unsubscribe function of reduxStore.subscribe, never called.
ReduxUnsubscribe_Kept(listeners) == listeners

\* Line 48: the readable's stop function is the unsubscribe function of
\* reduxStore.subscribe, which removes the listener of lines 45-47.
ReduxUnsubscribe(listeners) == listeners - 1

RsPre == [state |-> rs_state, listeners |-> rs_listeners, value |-> rs_value,
          subs |-> rs_subs]

not_rs == <<hs_vars, sm_vars, xs_vars, ia_vars, im_vars, ps_vars,
           rd_vars, ob_vars>>

\* dispatch(action), line 53: the reducer, then every listener of the
\* redux store.  The listener of lines 45-47 sets the readable to
\* getState(), an object, so the readable calls each of its subscribers.
\* The model keeps dogs from MaxDogs below its initial value up to MaxDogs.
RsDispatch(type) ==
    /\ type = INC => rs_state.dogs < MaxDogs
    /\ type = DEC => rs_state.dogs > reduxInitialState.dogs - MaxDogs
    /\ rs_state' = Reducer(rs_state, type)
    /\ rs_value' = IF rs_listeners > 0
                   THEN WritableValue(rs_value, rs_state', TRUE)
                   ELSE rs_value
    /\ log' = IF rs_listeners > 0
              THEN WritableCalls(rs_value, rs_state', TRUE, rs_subs, TRUE)
              ELSE << >>
    /\ last' = Op("redux", "dispatch", type, RsPre, FALSE)
    /\ UNCHANGED <<rs_listeners, rs_subs, not_rs>>

\* subscribe(run), line 52.  The first subscriber runs the readable's start
\* function (lines 44-49): reduxStore.subscribe.  The subscriber is then
\* called with the value the readable holds.
RsSubscribe(l) ==
    /\ ~InSeq(rs_subs, l)
    /\ rs_subs' = Append(rs_subs, l)
    /\ rs_listeners' = IF rs_subs = << >> THEN rs_listeners + 1 ELSE rs_listeners
    /\ log' = << Call(l, rs_value) >>
    /\ last' = Op("redux", "subscribe", l, RsPre, FALSE)
    /\ UNCHANGED <<rs_state, rs_value, not_rs>>

\* The unsubscribe function of the readable.  The last subscriber leaving
\* runs the stop function, line 48.
RsUnsubscribe(l) ==
    /\ InSeq(rs_subs, l)
    /\ rs_subs' = Remove(rs_subs, l)
    /\ rs_listeners' = IF rs_subs' = << >>
                       THEN ReduxUnsubscribe(rs_listeners)
                       ELSE rs_listeners
    /\ log' = << >>
    /\ last' = Op("redux", "unsubscribe", l, RsPre, FALSE)
    /\ UNCHANGED <<rs_state, rs_value, not_rs>>

RsNext ==
    \/ \E type \in ActionTypes : RsDispatch(type)
    \/ \E l \in Listeners : RsSubscribe(l)
    \/ \E l \in Listeners : RsUnsubscribe(l)

----------------------------------------------------------------------------
(* createStore(init, reducer) (src/src/reducer-store.js).                  *)

\* Actions handed to dispatch; "BARK" is none of the reducer's cases.
RdActions == {"SHOW", "HIDE", "BARK"}

\* Lines 21-30.
reducer(state, action) ==
    CASE action = "SHOW" -> TRUE
      [] action = "HIDE" -> FALSE
      [] OTHER -> state

\* Line 10: whether devTools.send(action, state) throws.  It throws a
\* TypeError when devTools is undefined, which line 4 makes it when the
\* window has no __REDUX_DEVTOOLS_EXTENSION__.
DevToolsSend(devTools) == devTools = "absent"

RdPre == [devtools |-> rd_devtools, value |-> rd_value, subs |-> rd_subs,
          fold |-> rd_fold]

not_rd == <<hs_vars, sm_vars, xs_vars, ia_vars, im_vars, ps_vars, rs_vars,
           ob_vars>>

\* createStore(false, reducer), lines 4-6 and 32, in a window with or
\* without the devtools extension.
RdCreateStore(extension) ==
    /\ rd_devtools = "none"
    /\ rd_devtools' = IF extension THEN "connected" ELSE "absent"
    /\ log' = << >>
    /\ last' = Op("reducer", "createStore", IF extension THEN "extension" ELSE "",
                  RdPre, FALSE)
    /\ UNCHANGED <<rd_value, rd_subs, rd_fold, rd_sent, not_rd>>

\* dispatch(action), lines 8-13: update runs the callback, which calls
\* devTools.send before the reducer, and sets what it returns.  A throw in
\* the callback leaves update before anything is set.
RdDispatch(action) ==
    /\ rd_devtools # "none"
    /\ rd_fold' = reducer(rd_fold, action)
    /\ IF DevToolsSend(rd_devtools)
       THEN /\ log' = << >>
            /\ last' = Op("reducer", "dispatch", action, RdPre, TRUE)
            /\ UNCHANGED <<rd_value, rd_sent>>
       ELSE /\ rd_sent' = <<action, rd_value>>
            /\ rd_value' = WritableValue(rd_value, reducer(rd_value, action), FALSE)
            /\ log' = WritableCalls(rd_value, reducer(rd_value, action), FALSE,
                                    rd_subs, rd_subs # << >>)
            /\ last' = Op("reducer", "dispatch", action, RdPre, FALSE)
    /\ UNCHANGED <<rd_devtools, rd_subs, not_rd>>

\* subscribe(run), line 16: the writable's subscribe.
RdSubscribe(l) ==
    /\ rd_devtools # "none"
    /\ ~InSeq(rd_subs, l)
    /\ rd_subs' = Append(rd_subs, l)
    /\ log' = << Call(l, rd_value) >>
    /\ last' = Op("reducer", "subscribe", l, RdPre, FALSE)
    /\ UNCHANGED <<rd_devtools, rd_value, rd_fold, rd_sent, not_rd>>

\* The unsubscribe function the writable's subscribe returned for l.
RdUnsubscribe(l) ==
    /\ InSeq(rd_subs, l)
    /\ rd_subs' = Remove(rd_subs, l)
    /\ log' = << >>
    /\ last' = Op("reducer", "unsubscribe", l, RdPre, FALSE)
    /\ UNCHANGED <<rd_devtools, rd_value, rd_fold, rd_sent, not_rd>>

RdNext ==
    \/ \E extension \in BOOLEAN : RdCreateStore(extension)
    \/ \E action \in RdActions : RdDispatch(action)
    \/ \E l \in Listeners : RdSubscribe(l)
    \/ \E l \in Listeners : RdUnsubscribe(l)

----------------------------------------------------------------------------
(* observableStore(false) (src/src/observable-store.js): an rxjs           *)
(* BehaviorSubject piped through debounceTime(400) and take(5), with the   *)
(* result's next as set.  pipe on a subject gives an object whose next     *)
(* forwards to the subject and whose subscribe runs the subscriber through *)
(* its own instance of the operators.  Time is modelled by ObDue: the      *)
(* 400 ms of a subscriber's debounce have passed without a new value.      *)

\* The count handed to take, line 5.
TakeCount == 5

\* A subscriber's chain before subscribe and after unsubscribe.
NoChain == [status |-> "unsubscribed", held |-> << >>, taken |-> 0]

\* debounceTime on a value from its source: it holds the value, in place
\* of the one it held, and restarts its timer.
Debounce(chain, v, from) == [chain EXCEPT !.held = << [value |-> v, from |-> from] >>]

\* take on a value from debounceTime: it passes the value on and
\* completes with the last of its count, which unsubscribes the chain
\* from the subject.
Take(chain) ==
    [chain EXCEPT !.held = << >>,
                  !.taken = @ + 1,
                  !.status = IF chain.taken + 1 >= TakeCount
                             THEN "complete" ELSE @]

\* BehaviorSubject.next(v) for one subscriber: the subject passes v to
\* the chains subscribed to it.
SubjectNext(chain, v) ==
    IF chain.status = "subscribed" THEN Debounce(chain, v, "set") ELSE chain

\* Whether set(v) costs the listener of the chain a value: the value set
\* before and still held is replaced, or the chain has completed while
\* the listener still holds its subscription.
Drops(chain) ==
    \/ chain.status = "complete"
    \/ chain.status = "subscribed" /\ chain.held # << >> /\ chain.held[1].from = "set"

ObPre == [value |-> ob_value, chains |-> ob_chains]

not_ob == <<hs_vars, sm_vars, xs_vars, ia_vars, im_vars, ps_vars, rs_vars,
           rd_vars>>

\* store.set(v), line 6: next of the piped subject, which forwards v to
\* the BehaviorSubject.  Nothing is delivered during the call.
ObSet(v) ==
    /\ ob_value' = v
    /\ ob_chains' = [l \in Listeners |-> SubjectNext(ob_chains[l], v)]
    /\ ob_dropped' = [l \in Listeners |-> ob_dropped[l] \/ Drops(ob_chains[l])]
    /\ log' = << >>
    /\ last' = Op("observable", "set", v, ObPre, FALSE)
    /\ UNCHANGED not_ob

\* store.subscribe(l): a new chain of the operators is subscribed to the
\* BehaviorSubject, which passes its current value into it at once.
ObSubscribe(l) ==
    /\ ob_chains[l].status = "unsubscribed"
    /\ ob_chains' = [ob_chains EXCEPT ![l] =
                        Debounce([NoChain EXCEPT !.status = "subscribed"],
                                 ob_value, "replay")]
    /\ log' = << >>
    /\ last' = Op("observable", "subscribe", l, ObPre, FALSE)
    /\ UNCHANGED <<ob_value, ob_dropped, not_ob>>

\* The 400 ms of l's debounceTime end: the held value goes through take
\* to the listener.
ObDue(l) ==
    /\ ob_chains[l].status = "subscribed"
    /\ ob_chains[l].held # << >>
    /\ ob_chains' = [ob_chains EXCEPT ![l] = Take(@)]
    /\ log' = << Call(l, ob_chains[l].held[1].value) >>
    /\ last' = Op("observable", "due", l, ObPre, FALSE)
    /\ UNCHANGED <<ob_value, ob_dropped, not_ob>>

\* unsubscribe() of the subscription store.subscribe(l) returned.
ObUnsubscribe(l) ==
    /\ ob_chains[l].status # "unsubscribed"
    /\ ob_chains' = [ob_chains EXCEPT ![l] = NoChain]
    /\ ob_dropped' = [ob_dropped EXCEPT ![l] = FALSE]
    /\ log' = << >>
    /\ last' = Op("observable", "unsubscribe", l, ObPre, FALSE)
    /\ UNCHANGED <<ob_value, not_ob>>

ObNext ==
    \/ \E v \in BOOLEAN : ObSet(v)
    \/ \E l \in Listeners : ObSubscribe(l)
    \/ \E l \in Listeners : ObDue(l)
    \/ \E l \in Listeners : ObUnsubscribe(l)

----------------------------------------------------------------------------
(* Specifications.                                                         *)

\* state_config without the SHOW handler of invisible.
state_config_NoShow ==
    [init |-> "invisible",
     states |-> [visible   |-> DemoStates.visible,
                 invisible |-> [on |-> [HIDE |-> "invisible"]]]]

\* state_config, lines 28-42 of src/unnamed/part_003.
state_config == [init |-> "invisible", states |-> DemoStates]

InitStores ==
    /\ last = Op("none", "init", "", << >>, FALSE)
    /\ log = << >>
    /\ hs_state = "false"
    /\ hs_subscribers = << >>
    /\ hs_handles = {}
    /\ hs_behaviour \in [Listeners -> Behaviours \cup {"sets"}]
    /\ sm_phase = "unconstructed"
    /\ sm_current = Undefined
    /\ sm_value = Undefined
    /\ sm_subs = << >>
    /\ xs_status = "NotStarted"
    /\ xs_machine \in {dog_machine, dog_machine_part_002}
    /\ xs_state = InitialState(xs_machine)
    /\ xs_listeners = 0
    /\ xs_value = InitialState(xs_machine)
    /\ xs_subs = << >>
    /\ xs_scenario = [step |-> 0, live |-> TRUE]
    /\ ia_value = initialState
    /\ ia_subs = << >>
    /\ ia_fold = initialState
    /\ ia_trace = << >>
    /\ ia_ref = InitialRef
    /\ ia_heap = [r \in {InitialRef} |-> initialState]
    /\ ia_kept = << >>
    /\ ia_origin = {}
    /\ im_value = [visible |-> TRUE, dogs |-> 0]
    /\ im_subs = << >>
    /\ im_ref = InitialRef
    /\ im_heap = [r \in {InitialRef} |-> [visible |-> TRUE, dogs |-> 0]]
    /\ im_kept = << >>
    /\ im_origin = {}
    /\ ps_storage = Null
    /\ ps_value = InitialValue(ps_storage, PsDefault)
    /\ ps_subs = << >>
    /\ ps_handles = {}
    /\ ps_phase = "created"
    /\ rs_state = reduxInitialState
    /\ rs_listeners = 0
    /\ rs_value = reduxInitialState
    /\ rs_subs = << >>
    /\ rd_devtools = "none"
    /\ rd_value = FALSE
    /\ rd_subs = << >>
    /\ rd_fold = FALSE
    /\ rd_sent = << >>
    /\ ob_value = FALSE
    /\ ob_chains = [l \in Listeners |-> NoChain]
    /\ ob_dropped = [l \in Listeners |-> FALSE]

\* Every listener of the homemade store only takes the value.
PlainListeners == \A l \in Listeners : hs_behaviour[l] = "plain"

\* The stores as the modules export them.
Init ==
    InitStores /\ sm_cfg = state_config /\ PlainListeners /\ xs_machine = dog_machine

\* machine called with any of the configurations.
InitAnyConfig ==
    InitStores /\ sm_cfg \in Configs /\ PlainListeners /\ xs_machine = dog_machine

\* The homemade store with listeners that call unsubscribe when notified.
InitAnyListeners ==
    /\ InitStores /\ sm_cfg = state_config /\ xs_machine = dog_machine
    /\ hs_behaviour \in [Listeners -> Behaviours]

\* The homemade store with listeners that call set when notified.
InitSettingListeners ==
    /\ InitStores /\ sm_cfg = state_config /\ xs_machine = dog_machine
    /\ hs_behaviour \in [Listeners -> {"plain", "sets"}]

\* The stores as exported, with the dog store of src/unnamed/part_002.
InitPart002 ==
    /\ InitStores /\ sm_cfg = state_config /\ PlainListeners
    /\ xs_machine = dog_machine_part_002

\* The homemade store alone.
SpecHomemade == Init /\ [][HsNext]_vars

\* The homemade store with listeners of every behaviour.
SpecHomemadeReentrant == InitAnyListeners /\ [][HsNext]_vars

\* The homemade store with listeners that call set.
SpecHomemadeSetting == InitSettingListeners /\ [][HsNext]_vars

\* The simple state machine store alone, over every configuration.
SpecMachine == InitAnyConfig /\ [][SmNext]_vars

\* The simple state machine store over every configuration, with callers
\* that try the writable's set and update on it.
SpecMachineCallers == InitAnyConfig /\ [][SmCallersNext]_vars

\* The observable store alone.
SpecObservable == Init /\ [][ObNext]_vars

\* The dog state machine store alone.
SpecDogs == Init /\ [][XsNext]_vars

\* The dog state machine store of src/unnamed/part_002 alone.
SpecDogsPart002 == InitPart002 /\ [][XsNext]_vars

\* The immer actions store alone.
SpecImmerActions == Init /\ [][IaNext]_vars

\* The immer store alone.
SpecImmer == Init /\ [][ImNext]_vars

\* The persisted store alone, constructed over an empty localStorage.
SpecPersisted == Init /\ [][PsNext]_vars

\* Both state machine stores as exported.
SpecMachines == Init /\ [][SmNext \/ XsNext]_vars

\* The two discrete states of both machines.
Visibility == {"visible", "invisible"}

\* Subscribing to and unsubscribing from the dog store, and switching the
\* dogs' visibility.
XsLifecycle ==
    \/ \E l \in Listeners : XsSubscribe(l)
    \/ \E l \in Listeners : XsUnsubscribe(l)
    \/ \E e \in Visibility : XsSend(IF e = "visible" THEN "SHOW" ELSE "HIDE")

\* The reducer store alone, in a window with or without the extension.
SpecReducer == Init /\ [][RdNext]_vars

\* The two immer-backed stores.  They share nothing, so a behaviour
\* follows the calls made on one of them.
ImmerBackedNext ==
    \/ last.store \in {"none", "immerActions"} /\ IaNext
    \/ last.store \in {"none", "immer"} /\ ImNext

SpecImmerBacked == Init /\ [][ImmerBackedNext]_vars

\* The two stores that adapt an external source: the redux store, and the
\* interpreter of the dog machine with the number of dogs left alone.
SpecAdapters == Init /\ [][RsNext \/ XsLifecycle]_vars

----------------------------------------------------------------------------
(* Claims.                                                                 *)

\* The last call was `op` on `store`.
Did(store, op) == last.store = store /\ last.op = op

\* Registrations of x in a listener list.
Count(seq, x) == Cardinality({i \in 1..Len(seq) : seq[i] = x})

\* C1: in the dog state machine store, 0 <= dogs <= 6 in every reachable
\* state, in the service's state and in the value the store holds; a DEC
\* at 0 and an INC at 6 leave dogs where it was.
C1_DogsWithinBounds ==
    /\ xs_state.context.dogs \in 0..6
    /\ xs_value.context.dogs \in 0..6
    /\ Did("dogs", "send") /\ last.arg = "DEC" /\ last.pre.state.context.dogs = 0
         => xs_state.context.dogs = 0
    /\ Did("dogs", "send") /\ last.arg = "INC" /\ last.pre.state.context.dogs = 6
         => xs_state.context.dogs = 6

\* C1 witness: INC was sent to the running, visible machine holding 6 dogs.
C1_IncAtSix ==
    /\ Did("dogs", "send") /\ last.arg = "INC"
    /\ last.pre.status = "Running"
    /\ last.pre.state.value = "visible"
    /\ last.pre.state.context.dogs = 6
    /\ xs_state.context.dogs = 6

\* A send whose transition the guard rejects: DEC at 0 dogs or INC at 6
\* dogs, in state visible.
GuardRejects ==
    /\ Did("dogs", "send")
    /\ last.pre.state.value = "visible"
    /\ \/ last.arg = "DEC" /\ last.pre.state.context.dogs = 0
       \/ last.arg = "INC" /\ last.pre.state.context.dogs = 6

\* C2: a guard-rejected event (DEC at 0, INC at 6, in state visible) leaves
\* the discrete state, the context and the value the store holds unchanged
\* and calls no subscriber.
C2_GuardRejectedChangesNothing ==
    GuardRejects =>
        /\ xs_state.value = last.pre.state.value
        /\ xs_state.context = last.pre.state.context
        /\ xs_value = last.pre.value
        /\ log = << >>
        /\ ~last.threw

\* C2 witness: DEC was rejected while the service ran with two subscribers
\* that had already been told of a change.
C2_DecAtZeroRejected ==
    /\ GuardRejects /\ last.arg = "DEC"
    /\ last.pre.status = "Running"
    /\ Len(xs_subs) = 2
    /\ last.pre.state.changed

\* C3: in the simple state machine store the current state is a key of the
\* states table in every reachable state of a constructed store.
C3_CurrentIsKey ==
    sm_phase = "constructed" => HasOwnProperty(sm_cfg.states, sm_current)

\* A send of an event the state before it has no handler for.
SmUnhandled ==
    /\ Did("machine", "send")
    /\ HasOwnProperty(sm_cfg.states, last.pre.current)
    /\ ~HasOwnProperty(sm_cfg.states[last.pre.current].on, last.arg)

XsUnhandled ==
    /\ Did("dogs", "send")
    /\ ~HasOwnProperty(dog_machine.states[last.pre.state.value].on, last.arg)

\* C4: sending an event the current state defines no handler for changes
\* neither state nor context nor the value the store holds, calls no
\* subscriber and does not throw, in both state machine stores.
C4_UnknownEventIgnored ==
    /\ SmUnhandled =>
        /\ sm_current = last.pre.current
        /\ sm_value = last.pre.value
        /\ log = << >>
        /\ ~last.threw
    /\ XsUnhandled =>
        /\ xs_state.value = last.pre.state.value
        /\ xs_state.context = last.pre.state.context
        /\ xs_value = last.pre.value
        /\ log = << >>
        /\ ~last.threw

\* C4 witness: INC was sent to the running dog machine while invisible,
\* with a subscriber and dogs to count, the simple machine store being
\* constructed, visible and subscribed to.
C4_IncWhileInvisible ==
    /\ XsUnhandled /\ last.arg = "INC"
    /\ last.pre.state.value = "invisible"
    /\ last.pre.status = "Running"
    /\ xs_subs # << >>
    /\ xs_state.context.dogs > 0
    /\ sm_phase = "constructed" /\ sm_current = "visible" /\ sm_subs # << >>

\* C5: subscribe(listener) on the homemade store calls the listener exactly
\* once, with the current value, before it returns.
C5_ReplayOnSubscribe ==
    Did("homemade", "subscribe") => log = << Call(last.arg, hs_state) >>

\* C6: set(v) on the homemade store when the stored value is already v
\* leaves the value unchanged and calls no listener.
C6_EqualSetIsNoOp ==
    Did("homemade", "set") /\ last.arg = last.pre.state =>
        /\ hs_state = last.pre.state
        /\ log = << >>

\* C7: set(v2) on the homemade store when the stored value differs from v2
\* stores v2 and calls every registration of the listener list exactly
\* once with v2, in subscription order.
C7_ChangeTriggersAll ==
    Did("homemade", "set") /\ last.arg # last.pre.state =>
        /\ hs_state = last.arg
        /\ Len(log) = Len(last.pre.subscribers)
        /\ \A i \in 1..Len(log) :
              /\ log[i].listener = last.pre.subscribers[i]
              /\ log[i].value = last.arg

\* C7 witness: a changing set with both listeners registered, l2 first.
C7_ChangingSetTwoListeners ==
    /\ Did("homemade", "set") /\ last.arg # last.pre.state
    /\ Len(hs_subscribers) >= 2
    /\ hs_subscribers[1] = "l2" /\ hs_subscribers[2] = "l1"

\* C8: calling the unsubscribe function returned by the homemade store's
\* subscribe never throws and leaves the registrations of the other
\* listeners unchanged.
C8_UnsubscribeNeverThrows ==
    Did("homemade", "unsubscribe") =>
        /\ ~last.threw
        /\ \A l \in Listeners \ {last.arg} :
              Count(hs_subscribers, l) = Count(last.pre.subscribers, l)

\* C9: after the unsubscribe function of a listener registered once has
\* been called, the listener is not in the homemade store's listener list.
C9_UnsubscribedNotListed ==
    Did("homemade", "unsubscribe") /\ Count(last.pre.subscribers, last.arg) = 1
        => ~InSeq(hs_subscribers, last.arg)

\* C10: machine called with an init that is not a key of states throws and
\* yields no store; called with a key it succeeds with current = init.
C10_ConstructionChecksInit ==
    /\ sm_phase # "unconstructed" =>
          IF HasOwnProperty(sm_cfg.states, sm_cfg.init)
          THEN sm_phase = "constructed"
          ELSE sm_phase = "failed"
    /\ sm_phase = "failed" =>
          /\ Did("machine", "machine") /\ last.threw
          /\ sm_current = Undefined /\ sm_value = Undefined /\ sm_subs = << >>
    /\ Did("machine", "machine") /\ sm_phase = "constructed" =>
          /\ ~last.threw
          /\ sm_current = sm_cfg.init
          /\ sm_value = sm_cfg.init

\* C10 witness: construction failed for an init naming an inherited
\* property rather than a state.
C10_FailedOnInheritedName ==
    /\ sm_phase = "failed"
    /\ sm_cfg.init = "toString"
    /\ last.threw

\* The last call was an action of the immer actions store.
DidAction == last.store = "immerActions" /\ last.op \notin {"subscribe", "unsubscribe"}

\* C11: in the immer actions store every action delivers to every
\* subscriber, and every subscribe replays, the result of applying the
\* actions called so far in order to {visible:false, dogs:0}; after inc()
\* then show() that value is {visible:true, dogs:1}.
C11_ActionsFold ==
    /\ ia_value = ia_fold
    /\ DidAction =>
          /\ Len(log) = Len(ia_subs)
          /\ \A i \in 1..Len(log) :
                log[i].listener = ia_subs[i] /\ log[i].value = ia_fold
    /\ Did("immerActions", "subscribe") => log = << Call(last.arg, ia_fold) >>
    /\ ia_trace = <<"inc", "show">> =>
          /\ ia_value = [visible |-> TRUE, dogs |-> 1]
          /\ \A i \in 1..Len(log) : log[i].value = [visible |-> TRUE, dogs |-> 1]

\* C11 witness: the test of store.test.js: l1 subscribed, then inc() and
\* show(), and l1 was last called with {visible:true, dogs:1}.
C11_IncThenShowObserved ==
    /\ ia_trace = <<"inc", "show">>
    /\ last.store = "immerActions" /\ last.op = "show"
    /\ log = << Call("l1", [visible |-> TRUE, dogs |-> 1]) >>

\* C12 as stated: once INC, SHOW, HIDE have been sent to the dog store in
\* this order from visible/{dogs:0}, it is invisible with {dogs:1}; SHOW
\* while visible changes nothing, and HIDE and SHOW never change dogs.
C12_TransitionExample ==
    /\ xs_scenario.step = Len(Scenario) =>
          xs_state.value = "invisible" /\ xs_state.context.dogs = 1
    /\ Did("dogs", "send") /\ last.arg \in {"HIDE", "SHOW"} =>
          xs_state.context = last.pre.state.context
    /\ Did("dogs", "send") /\ last.arg = "SHOW" /\ last.pre.state.value = "visible" =>
          xs_state.value = "visible" /\ xs_value = last.pre.value /\ log = << >>

\* C12 amended: the same, for sends made while the store had a subscriber
\* (the service was running) from the first of them on.
C12_TransitionExampleWhileRunning ==
    /\ xs_scenario.step = Len(Scenario) /\ xs_scenario.live =>
          xs_state.value = "invisible" /\ xs_state.context.dogs = 1
    /\ Did("dogs", "send") /\ last.arg \in {"HIDE", "SHOW"} =>
          xs_state.context = last.pre.state.context
    /\ Did("dogs", "send") /\ last.arg = "SHOW" /\ last.pre.state.value = "visible" =>
          xs_state.value = "visible" /\ xs_value = last.pre.value /\ log = << >>

\* C12 witness: the three sends were made to the running service and the
\* last of them, HIDE, was delivered to a subscriber.
C12_ScenarioRan ==
    /\ xs_scenario = [step |-> Len(Scenario), live |-> TRUE]
    /\ Did("dogs", "send") /\ last.arg = "HIDE"
    /\ log # << >>
    /\ xs_state.value = "invisible" /\ xs_state.context.dogs = 1

\* The value update(fn) is to store: fn's mutations applied to the value
\* held before.
Updated == ImDraft(last.arg, last.pre.value)

\* C13: update(fn) on the immer store stores the value obtained by applying
\* fn's draft mutations to the current value and calls every subscriber
\* once with it, as set of that value does, and changes and notifies
\* nothing when fn changes nothing.
C13_UpdateIsSetOfProduce ==
    Did("immer", "update") =>
        /\ im_value = Updated
        /\ last.arg = "dogs+=1" => im_value.dogs = last.pre.value.dogs + 1
        /\ last.arg = "visible=false" => ~im_value.visible
        /\ IF Updated = last.pre.value
           THEN log = << >>
           ELSE /\ Len(log) = Len(im_subs)
                /\ \A i \in 1..Len(log) :
                      log[i].listener = im_subs[i] /\ log[i].value = Updated

\* C13 witness: an update whose recipe assigned visible the value it had,
\* with a subscriber listening.
C13_UpdateWithoutChange ==
    /\ Did("immer", "update") /\ last.arg = "visible=true"
    /\ last.pre.value.visible
    /\ last.pre.value.dogs = 2
    /\ im_subs # << >>

\* C14: in the persisted store a set or subscribe during which
\* localStorage.setItem fails still calls the subscribers with the current
\* value and does not throw.
C14_StorageFailureNotFatal ==
    last.store = "persisted" /\ last.op \in {"set", "subscribe"} /\ last.pre.fails =>
        /\ ~last.threw
        /\ Len(log) = IF last.op = "set" THEN Len(ps_subs) ELSE 1
        /\ \A i \in 1..Len(log) : log[i].value = ps_value

\* C15: after a set that changes the persisted store's value, with
\* localStorage working, the storage entry holds the serialization of the
\* new value, however many listeners are subscribed.
C15_PersistsEveryChange ==
    Did("persisted", "set") /\ ~last.pre.fails /\ ps_value # last.pre.value =>
        ps_storage = Stringify(ps_value)

\* Calls of listener l in the log.
Called(l) == Cardinality({i \in 1..Len(log) : log[i].listener = l})

\* C16: when a listener of the homemade store calls an unsubscribe
\* function during a notification pass, every other listener registered
\* when the pass began is called exactly once per registration in that pass.
C16_UnsubscribeDuringPass ==
    Did("homemade", "set") =>
        \A l \in Listeners :
            hs_behaviour[l] = "plain" => Called(l) = Count(last.pre.subscribers, l)

\* The send just made found, in the table of the current state, a handler
\* for the event whose target is not a key of the states table.
StrayTarget ==
    /\ Did("machine", "send")
    /\ HasOwnProperty(sm_cfg.states, last.pre.current)
    /\ Truthy(Get(sm_cfg.states[last.pre.current].on, last.arg))
    /\ ~HasOwnProperty(sm_cfg.states,
                       Get(sm_cfg.states[last.pre.current].on, last.arg))

\* C17: in the simple state machine store, sending an event whose handler
\* names a target that is not a key of the states table changes nothing:
\* the current state and the stored value stay, no subscriber is notified
\* and no exception is raised.
C17_StrayTargetIsNoOp ==
    StrayTarget =>
        /\ sm_current = last.pre.current
        /\ sm_value = last.pre.value
        /\ log = << >>
        /\ ~last.threw

\* The states of the simple machine that at most n sends lead to from the
\* states in `seen`.
RECURSIVE SmReachable(_, _, _)
SmReachable(states, seen, n) ==
    IF n = 0 THEN seen
    ELSE SmReachable(states,
                     seen \cup {SmStep(states, c, e) : c \in seen, e \in SmEvents},
                     n - 1)

\* The states of the dog machine that at most n events lead to from the
\* states in `seen`.
RECURSIVE XsReachable(_, _, _)
XsReachable(m, seen, n) ==
    IF n = 0 THEN seen
    ELSE XsReachable(m,
                     seen \cup {Transition(m, st, e) : st \in seen, e \in XsEvents},
                     n - 1)

\* C18: the visible/invisible machine has no terminal state.  In every
\* reachable state of the simple machine and of the dog machine some event
\* is accepted and changes the discrete state, and some sequence of events
\* leads to visible and some sequence to invisible.
C18_NoTerminalState ==
    /\ sm_phase = "constructed" =>
          /\ \E e \in SmEvents :
                SmStep(sm_cfg.states, sm_current, e) # sm_current
          /\ Visibility \subseteq
                SmReachable(sm_cfg.states, {sm_current},
                            Cardinality(DOMAIN sm_cfg.states))
    /\ \E e \in XsEvents :
          Transition(dog_machine, xs_state, e).value # xs_state.value
    /\ Visibility \subseteq
          {st.value : st \in XsReachable(dog_machine, {xs_state},
                                         Cardinality(DOMAIN dog_machine.states))}

\* The simple machine has just gone back to invisible while the dog machine
\* is visible with the kennel full.
C18_BothMachinesMoved ==
    /\ Did("machine", "send")
    /\ last.pre.current = "visible" /\ sm_current = "invisible"
    /\ xs_state.value = "visible" /\ xs_state.context.dogs = 6

\* The send just made was an INC or DEC the running service took in state
\* visible with the guard true.
AcceptedInternal ==
    /\ Did("dogs", "send")
    /\ last.arg \in {"INC", "DEC"}
    /\ last.pre.status = "Running"
    /\ last.pre.state.value = "visible"
    /\ dogsCanChange(last.pre.state.context, last.arg)

\* C19: in the dog state machine store, an accepted internal INC or DEC
\* transition keeps the discrete state visible, changes context.dogs by
\* exactly +1 or -1, and notifies each subscriber exactly once with the new
\* state and context.
C19_InternalTransitionNotifies ==
    AcceptedInternal =>
        /\ xs_state.value = "visible"
        /\ xs_state.context.dogs = last.pre.state.context.dogs
                                   + (IF last.arg = "INC" THEN 1 ELSE -1)
        /\ xs_value = xs_state
        /\ Len(log) = Len(xs_subs)
        /\ \A i \in 1..Len(xs_subs) :
              /\ Count(log, Call(xs_subs[i], xs_state)) = 1
              /\ log[i].value = xs_state

\* An accepted DEC reached two subscribers with one dog left.
C19_DecWithTwoSubscribers ==
    /\ AcceptedInternal
    /\ last.arg = "DEC"
    /\ Len(xs_subs) = 2
    /\ xs_state.context.dogs = 1

\* C20: a store that adapts an external source releases its subscription
\* when torn down.  The redux adapter and the state-machine adapter each
\* hold at most one listener on their source, and none while they have no
\* subscriber.
C20_AdaptersRelease ==
    /\ rs_listeners \in {0, 1}
    /\ rs_subs = << >> => rs_listeners = 0
    /\ xs_listeners \in {0, 1}
    /\ xs_subs = << >> => xs_listeners = 0

\* The redux adapter, torn down once, has two subscribers again, and the
\* state-machine adapter has been torn down.
C20_TornDownAndResubscribed ==
    /\ Did("redux", "subscribe")
    /\ Len(rs_subs) = 2
    /\ rs_listeners = 1
    /\ rs_value # rs_state
    /\ xs_status = "Stopped" /\ xs_subs = << >>

\* Every object a listener kept has the properties it had when the
\* listener was called with it.
KeptUnchanged(heap, kept) ==
    \A l \in DOMAIN kept : heap[kept[l].ref] = kept[l].seen

\* The last call was an action of the immer actions store, or an update of
\* the immer store, that changed the value and reached a subscriber.
DeliveredChange ==
    /\ log # << >>
    /\ \/ DidAction /\ ia_value # last.pre.value
       \/ Did("immer", "update") /\ im_value # last.pre.value

\* Who already had the object that call delivered.
DeliveredOrigin == IF last.store = "immer" THEN im_origin ELSE ia_origin

C22_Part002DogsWithinBounds ==
    xs_machine = dog_machine_part_002 =>
        /\ xs_state.context.dogs \in 0..6
        /\ xs_value.context.dogs \in 0..6

\* C23: in the immer actions store, an action that produces the very
\* object the store holds (dec() when dogs = 0, show() when visible, hide()
\* when invisible) notifies no subscriber and leaves the value as it was.
C23_SameReferenceIsNoOp ==
    DidAction /\ "held" \in ia_origin =>
        /\ log = << >>
        /\ ia_value = last.pre.value

\* The set just made, set(v), had a listener call set(w) while it was
\* being notified of v.
ReentrantSet ==
    /\ Did("homemade", "set")
    /\ \E i \in 1..Len(log) :
          /\ log[i].value = last.arg
          /\ CallSets(hs_behaviour, log[i].listener, log[i].value)

\* The places of the calls of listener l with value v in the log.
CallsAt(l, v) == {i \in 1..Len(log) : log[i] = Call(l, v)}

\* C24: re-entrant set is safe in the homemade store.  When a listener
\* calls set(w) while being notified of v, the outer call returns, every
\* registration is called exactly once with v and exactly once with w, no
\* listener is called with w before v, and the stored value ends as w.
C24_ReentrantSetIsSafe ==
    ReentrantSet =>
        /\ ~last.threw
        /\ hs_state = SetByListener
        /\ \A l \in Listeners :
              /\ Count(log, Call(l, last.arg)) = Count(hs_subscribers, l)
              /\ Count(log, Call(l, SetByListener)) = Count(hs_subscribers, l)
              /\ \A i \in CallsAt(l, SetByListener) :
                    \E j \in CallsAt(l, last.arg) : j < i

\* C25: in the reducer store, after any sequence of dispatches the value
\* is the fold of the reducer over the dispatched actions from false:
\* after dispatch('SHOW') it is true, after dispatch('HIDE') false, and
\* any other action leaves it as it was and notifies no subscriber.
C25_ValueIsFoldOfReducer ==
    /\ rd_value = rd_fold
    /\ Did("reducer", "dispatch") =>
          /\ last.arg = "SHOW" => rd_value = TRUE
          /\ last.arg = "HIDE" => rd_value = FALSE
          /\ last.arg \notin {"SHOW", "HIDE"} =>
                rd_value = last.pre.value /\ log = << >>

\* C26: rehydration round trip of the persisted store.  A store created
\* for a key whose entry is absent starts with the default value, and a
\* store created for a key under which an earlier instance persisted v
\* starts with a value equal to v, for every value v the store can hold.
C26_RehydrationRoundTrip ==
    Did("persisted", "create") =>
        /\ ~last.threw
        /\ last.pre.storage = Null => ps_value = PsDefault
        /\ \A v \in PsValues :
              last.pre.storage = Stringify(v) => ps_value = v

\* C27: in the redux-backed store, the value replayed to a new subscriber
\* is the redux store's current state, also when actions were dispatched
\* while the adapter had no subscriber.
C27_ReplayIsCurrentState ==
    Did("redux", "subscribe") => log = << Call(last.arg, rs_state) >>

\* C28: in the immer actions store dogs >= 0 in every reachable state, in
\* the value the store holds and in every value it delivers: dec never
\* takes dogs below 0.
C28_DogsNeverNegative ==
    /\ ia_value.dogs >= 0
    /\ ia_heap[ia_ref].dogs >= 0
    /\ last.store = "immerActions" =>
          \A i \in 1..Len(log) : log[i].value.dogs >= 0

\* dec() was called with no dog left and a subscriber listening.
C28_DecAtZero ==
    /\ Did("immerActions", "dec")
    /\ last.pre.value.dogs = 0
    /\ ia_value.dogs = 0
    /\ log # << >>

\* C29: in the immer actions store reset() always restores the initial
\* state: after it the store holds {visible:false, dogs:0}, delivered to
\* every subscriber.  No action ever alters the module's initialState
\* object, so every later reset() yields {visible:false, dogs:0} again.
C29_ResetRestoresInitial ==
    /\ ia_heap[InitialRef] = initialState
    /\ Did("immerActions", "reset") =>
          /\ ia_value = initialState
          /\ ia_ref = InitialRef
          /\ log = ForEachCall(ia_subs, initialState)

\* reset(), then inc() on the initialState object the store then held,
\* then reset() again.
C29_ResetAfterResetAndInc ==
    /\ Did("immerActions", "reset")
    /\ last.pre.trace = <<"reset", "inc">>
    /\ last.pre.value = [visible |-> FALSE, dogs |-> 1]
    /\ ia_subs # << >>

\* C30: in the reducer store, dispatch applies the reducer and updates the
\* value whether or not the devtools extension is present: without it,
\* dispatch('SHOW') still sets the value to true and raises no error.
C30_DispatchWithoutDevtools ==
    Did("reducer", "dispatch") /\ last.pre.devtools = "absent" =>
        /\ ~last.threw
        /\ rd_value = reducer(last.pre.value, last.arg)
\* C31: in the simple state machine store only send changes the current
\* state: subscribe and unsubscribe leave current_state and the store's
\* value as they were, and a caller's set or update on the returned object
\* fails without changing either, the object having no such method.
C31_OnlySendChangesState ==
    /\ WritableSetters \cap MachineExports = {}
    /\ last.store = "machine" /\ last.op \notin {"machine", "send"} =>
          /\ sm_current = last.pre.current
          /\ sm_value = last.pre.value
          /\ sm_value = sm_current
          /\ last.op \in WritableSetters => last.threw /\ log = << >>

\* A caller tried set with another state name while the machine, moved to
\* visible by a send, had a subscriber.
C31_SetTriedOnMovedMachine ==
    /\ Did("machine", "set")
    /\ last.arg = "invisible"
    /\ sm_current = "visible"
    /\ sm_subs # << >>
\* C32: in the observable store set is next of the BehaviorSubject:
\* set(v) makes v the subject's current value, and v reaches every
\* listener subscribed to the store when it is set.
C32_SetIsNext ==
    /\ Did("observable", "set") => ob_value = last.arg
    /\ \A l \in Listeners :
          ob_chains[l].status # "unsubscribed" => ~ob_dropped[l]

====
